---------------------------- MODULE Spec2Model ----------------------------
(* imgproxy HTTP front end (server.go, errors.go): the middleware chain     *)
(* built by buildRouter, the fault-isolation wrapper, the error             *)
(* constructors, and the listener lifecycle of startServer/shutdownServer.  *)
(*                                                                          *)
(* Two state machines share the module.  Spec follows one request through   *)
(* the handler chain of its route (requests share no mutable state).        *)
(* ServerSpec follows the listener, its connections and the shutdown; a     *)
(* request is there only "running" or "finished".                           *)
EXTENDS Integers, Sequences, FiniteSets, TLC

VARIABLES
    \* ---- process configuration (package config), fixed after Init
    Secret,                 \* config.Secret, a byte string
    AllowOrigin,            \* config.AllowOrigin
    DevelopmentErrorsMode,  \* config.DevelopmentErrorsMode
    metricsEnabled,         \* metrics.Enabled()
    MaxClients,             \* config.MaxClients
    KeepAliveTimeout,       \* config.KeepAliveTimeout
    \* ---- one request in the handler chain
    req,                    \* [route, Authorization]
    depth,                  \* index of the running handler in Chain(req.route)
    mode,                   \* "idle" | "call" | "return" | "panic" | "done"
    fault,                  \* the value last panicked with, or NoFault
    rw,                     \* the http.ResponseWriter
    trace,                  \* calls made to collaborators, in order
    outcome,                \* what the transport did with the request
    \* ---- listener and server lifecycle
    listener,               \* "none" | "open" | "closed"
    sem,                    \* slots taken in the LimitListener semaphore
    backlog,                \* connections waiting in the accept queue
    conn,                   \* conn[c]: state of connection c
    resp,                   \* resp[c]: fate of the latest request on c
    reused,                 \* requests read on kept connections
    waited,                 \* waited[c]: c, not yet closed, arrived with the cap reached
    serveLoop,              \* "none" | "running" | "exited"
    serveErr,               \* what s.Serve returned
    cancelCalls,            \* times cancel() was called
    errLog,                 \* log.Error lines of the serve goroutine
    startResult,            \* what startServer returned
    shutdown,               \* "no" | "draining" | "returned"
    inflight,               \* connections active when shutdownServer began
    elapsed,                \* time units since shutdownServer began
    returnedAt              \* elapsed when shutdownServer returned

cfgVars == <<Secret, AllowOrigin, DevelopmentErrorsMode, metricsEnabled,
             MaxClients, KeepAliveTimeout>>
reqVars == <<req, depth, mode, fault, rw, trace, outcome>>
srvVars == <<listener, sem, backlog, conn, resp, reused, waited, serveLoop,
             serveErr, cancelCalls, errLog, startResult, shutdown, inflight,
             elapsed, returnedAt>>
vars == <<cfgVars, reqVars, srvVars>>

\* A step of the request leaves the server alone, and the other way round.
ReqFrame == UNCHANGED <<cfgVars, srvVars>>
SrvFrame == UNCHANGED <<cfgVars, reqVars>>

-----------------------------------------------------------------------------
(* Byte strings are sequences of one-character strings.                     *)

Bearer == <<"B", "e", "a", "r", "e", "r", " ">>
bearerLower == <<"b", "e", "a", "r", "e", "r", " ">>

\* The secrets a deployment may configure; <<>> is "no secret".
Secrets == { <<>>, <<"k">>, <<"k", "1">> }

\* Authorization header values a client may send: absent, exact for either
\* secret, extended, wrong case (scheme and secret), scheme alone, secret alone.
AuthHeaders ==
    { <<>>,
      Bearer \o <<"k">>,
      Bearer \o <<"k", "1">>,
      Bearer \o <<"k", "1", "1">>,
      bearerLower \o <<"k", "1">>,
      Bearer \o <<"K", "1">>,
      Bearer,
      <<"k", "1">> }

Origins == { "", "https://example.com" }

Routes == { "processing", "head", "options", "health" }

\* crypto/subtle.ConstantTimeCompare: 0 at once when the lengths differ,
\* otherwise the OR of the XOR of every byte pair is compared with zero.
ConstantTimeCompare(x, y) ==
    IF Len(x) # Len(y)
    THEN 0
    ELSE LET v == { i \in 1..Len(x) : x[i] # y[i] }
         IN  IF v = {} THEN 1 ELSE 0

-----------------------------------------------------------------------------
(* Error values.  kind: "none" no fault, "abort" http.ErrAbortHandler,      *)
(* "value" a panic value that is not an error, "error" an error that is not *)
(* an *ierrors.Error, "ierror" an *ierrors.Error.                           *)

StatusOK == 200
StatusForbidden == 403
StatusTooManyRequests == 429
StatusInternalServerError == 500

Err(kind, type, msg, code, public, report) ==
    [kind |-> kind, type |-> type, msg |-> msg, statusCode |-> code,
     publicMessage |-> public, shouldReport |-> report]

NoFault == Err("none", "", "", 0, "", FALSE)
ErrAbortHandler == Err("abort", "http.ErrAbortHandler", "net/http: abort Handler", 0, "", FALSE)
PanicValue == Err("value", "string", "unexpected", 0, "", FALSE)
PlainError(msg) == Err("error", "errors.errorString", msg, 0, "", FALSE)

\* ierrors options
WithStatusCode(s) == [opt |-> "WithStatusCode", int |-> s, str |-> "", bool |-> FALSE]
WithPublicMessage(m) == [opt |-> "WithPublicMessage", int |-> 0, str |-> m, bool |-> FALSE]
WithShouldReport(b) == [opt |-> "WithShouldReport", int |-> 0, str |-> "", bool |-> b]

ApplyOption(e, o) ==
    CASE o.opt = "WithStatusCode"    -> [e EXCEPT !.statusCode = o.int]
      [] o.opt = "WithPublicMessage" -> [e EXCEPT !.publicMessage = o.str]
      [] o.opt = "WithShouldReport"  -> [e EXCEPT !.shouldReport = o.bool]

RECURSIVE ApplyOptions(_, _)
ApplyOptions(e, opts) ==
    IF opts = <<>> THEN e
    ELSE ApplyOptions(ApplyOption(e, Head(opts)), Tail(opts))

\* ierrors.Wrap(err, skip, opts...): an *ierrors.Error is kept (its fields
\* are the prior values the options override); any other error becomes one
\* with status 500, "Internal Server Error", report = true.
Wrap(err, opts) ==
    IF err.kind = "ierror"
    THEN ApplyOptions(err, opts)
    ELSE ApplyOptions(
            Err("ierror", err.type, err.msg, StatusInternalServerError,
                "Internal Server Error", TRUE),
            opts)

StatusCodeOf(e) == e.statusCode
PublicMessage(e) == e.publicMessage
ShouldReport(e) == e.shouldReport
ErrorString(e) == e.msg

\* errors.go
ResponseWriteError(cause) ==
    Err("error", "ResponseWriteError",
        "Failed to write response: " \o cause.msg, 0, "", FALSE)

newResponseWriteError(cause) ==
    Wrap(ResponseWriteError(cause), <<WithPublicMessage("Failed to write response")>>)

InvalidURLError(s) == Err("error", "InvalidURLError", s, 0, "", FALSE)

\* The constructor without the option that switches reporting off.
newInvalidURLErrorfReported(status, s) ==
    Wrap(InvalidURLError(s),
         <<WithStatusCode(status), WithPublicMessage("Invalid URL")>>)

newInvalidURLErrorf(status, s) ==
    Wrap(InvalidURLError(s),
         <<WithStatusCode(status), WithPublicMessage("Invalid URL"),
           WithShouldReport(FALSE)>>)

TooManyRequestsError == Err("error", "TooManyRequestsError", "Too many requests", 0, "", FALSE)

newTooManyRequestsError ==
    Wrap(TooManyRequestsError,
         <<WithStatusCode(StatusTooManyRequests),
           WithPublicMessage("Too many requests"), WithShouldReport(FALSE)>>)

InvalidSecretError == Err("error", "InvalidSecretError", "Invalid secret", 0, "", FALSE)

newInvalidSecretError ==
    Wrap(InvalidSecretError,
         <<WithStatusCode(StatusForbidden), WithPublicMessage("Forbidden"),
           WithShouldReport(FALSE)>>)

\* What the business handler may panic with.
HandlerFaults ==
    { ErrAbortHandler,
      PanicValue,
      PlainError("boom"),
      PlainError("open /etc/key: permission denied"),
      newResponseWriteError(PlainError("broken pipe")),
      newResponseWriteError(PlainError("connection reset by 10.0.0.7")),
      newInvalidURLErrorf(404, "bad path"),
      newTooManyRequestsError }


-----------------------------------------------------------------------------
(* http.ResponseWriter: the first WriteHeader fixes the status and the      *)
(* headers that are sent, a later one is ignored; Write sends the header    *)
(* with status 200 first when none was written.                             *)

HeaderNames ==
    { "Content-Type", "Cache-Control",
      "Access-Control-Allow-Origin", "Access-Control-Allow-Methods" }

NoHeaders == [h \in HeaderNames |-> ""]

NewResponseWriter ==
    [wroteHeader |-> FALSE, status |-> 0, header |-> NoHeaders,
     sent |-> NoHeaders, body |-> <<>>]

HeaderSet(w, k, v) == [w EXCEPT !.header[k] = v]

WriteHeader(w, code) ==
    IF w.wroteHeader
    THEN w
    ELSE [w EXCEPT !.wroteHeader = TRUE, !.status = code, !.sent = w.header]

Write(w, data) ==
    LET w1 == WriteHeader(w, StatusOK)
    IN  [w1 EXCEPT !.body = Append(@, data)]

\* One call to a collaborator or to the response writer.
Ev(by, op, status, err) == [by |-> by, op |-> op, status |-> status, err |-> err]

Call(by, op) == Ev(by, op, 0, NoFault)

-----------------------------------------------------------------------------
(* buildRouter: a handler chain is the sequence of handler functions from   *)
(* the outermost wrapper to the innermost handler.                          *)

withMetrics(h) == IF ~metricsEnabled THEN h ELSE <<"withMetrics">> \o h

withCORS(h) == <<"withCORS">> \o h

withSecret(h) == IF Len(Secret) = 0 THEN h ELSE <<"withSecret">> \o h

withPanicHandler(h) == <<"withPanicHandler">> \o h

\* The routes with the secret check put on HEAD and OPTIONS as well.
buildRouterSecretOnHead(route) ==
    CASE route = "processing" ->
            withMetrics(withPanicHandler(withCORS(withSecret(<<"handleProcessing">>))))
      [] route = "head"    -> withCORS(withSecret(<<"handleHead">>))
      [] route = "options" -> withCORS(withSecret(<<"handleHead">>))
      [] route = "health"  -> <<"handleHealth">>

\* The processing route with the panic handler put inside withCORS.
buildRouterCORSFirst(route) ==
    CASE route = "processing" ->
            withMetrics(withCORS(withPanicHandler(withSecret(<<"handleProcessing">>))))
      [] route = "head"    -> withCORS(<<"handleHead">>)
      [] route = "options" -> withCORS(<<"handleHead">>)
      [] route = "health"  -> <<"handleHealth">>

\* The processing route with the secret check put outside withCORS.
buildRouterSecretFirst(route) ==
    CASE route = "processing" ->
            withMetrics(withPanicHandler(withSecret(withCORS(<<"handleProcessing">>))))
      [] route = "head"    -> withCORS(<<"handleHead">>)
      [] route = "options" -> withCORS(<<"handleHead">>)
      [] route = "health"  -> <<"handleHealth">>

buildRouter(route) ==
    CASE route = "processing" ->
            withMetrics(withPanicHandler(withCORS(withSecret(<<"handleProcessing">>))))
      [] route = "head"    -> withCORS(<<"handleHead">>)
      [] route = "options" -> withCORS(<<"handleHead">>)
      [] route = "health"  -> <<"handleHealth">>

Chain == buildRouter(req.route)

Cur == IF depth \in 1..Len(Chain) THEN Chain[depth] ELSE "transport"

\* withSecret: authHeader := []byte(fmt.Sprintf("Bearer %s", config.Secret))
authHeader == Bearer \o Secret

imgproxyIsRunningMsg == "imgproxy is running"

-----------------------------------------------------------------------------
(* One request through the chain.  A handler function is entered in mode    *)
(* "call"; it hands over to the next one (depth + 1), returns, or panics.   *)
(* In mode "return" or "panic" control runs outward (depth - 1) through     *)
(* each function's deferred calls.                                          *)

\* router.ServeHTTP: the route's handler is called with a fresh writer.
ServeHTTP(route, auth) ==
    /\ mode = "idle"
    /\ req' = [route |-> route, Authorization |-> auth]
    /\ depth' = 1
    /\ mode' = "call"
    /\ UNCHANGED <<fault, rw, trace, outcome>>
    /\ ReqFrame

\* withMetrics, up to the call of h: metrics.StartRequest opens the span.
MetricsEnter ==
    /\ mode = "call" /\ Cur = "withMetrics"
    /\ trace' = trace \o <<Call("withMetrics", "enter"),
                           Call("withMetrics", "metrics.StartRequest")>>
    /\ depth' = depth + 1
    /\ UNCHANGED <<req, mode, fault, rw, outcome>>
    /\ ReqFrame

\* metricsCancel() called after h returns, not deferred: a panic passes by.
MetricsCancelOnReturn ==
    /\ mode \in {"return", "panic"} /\ Cur = "withMetrics"
    /\ trace' = IF mode = "return"
                 THEN Append(trace, Call("withMetrics", "metricsCancel"))
                 ELSE trace
    /\ depth' = depth - 1
    /\ UNCHANGED <<req, mode, fault, rw, outcome>>
    /\ ReqFrame

\* withMetrics, deferred: metricsCancel() runs on return and on panic.
MetricsCancel ==
    /\ mode \in {"return", "panic"} /\ Cur = "withMetrics"
    /\ trace' = Append(trace, Call("withMetrics", "metricsCancel"))
    /\ depth' = depth - 1
    /\ UNCHANGED <<req, mode, fault, rw, outcome>>
    /\ ReqFrame

\* withPanicHandler, up to the call of h.
PanicHandlerEnter ==
    /\ mode = "call" /\ Cur = "withPanicHandler"
    /\ trace' = trace \o <<Call("withPanicHandler", "enter"),
                           Call("withPanicHandler", "errorreport.StartRequest"),
                           Call("withPanicHandler", "errorreport.SetMetadata")>>
    /\ depth' = depth + 1
    /\ UNCHANGED <<req, mode, fault, rw, outcome>>
    /\ ReqFrame

\* The full message is sent whatever the mode.
RenderBodyFull(ierr) == ErrorString(ierr)

\* The rendering of an intercepted error: report, log, header, status, body.
RenderBody(ierr) ==
    IF DevelopmentErrorsMode THEN ErrorString(ierr) ELSE PublicMessage(ierr)

RenderedWriter(w, ierr) ==
    Write(WriteHeader(HeaderSet(w, "Content-Type", "text/plain"),
                      StatusCodeOf(ierr)),
          RenderBody(ierr))

RenderCalls(err, ierr) ==
    (IF ShouldReport(ierr)
     THEN <<Ev("withPanicHandler", "errorreport.Report", 0, err)>>
     ELSE <<>>)
    \o <<Ev("withPanicHandler", "router.LogResponse", StatusCodeOf(ierr), ierr),
         Ev("withPanicHandler", "WriteHeader", StatusCodeOf(ierr), NoFault),
         Ev("withPanicHandler", "Write", 0, NoFault)>>

\* The recovered error wrapped with the default policy spelled out as options.
NormalizeAsInternal(err) ==
    Wrap(err, <<WithStatusCode(StatusInternalServerError),
                WithPublicMessage("Internal Server Error"),
                WithShouldReport(TRUE)>>)

\* ierr := ierrors.Wrap(err, 0)
Normalize(err) == Wrap(err, <<>>)

\* recover() hands a panic value on when it is http.ErrAbortHandler or is
\* not an error.
IsError(f) == f.kind \in {"abort", "error", "ierror"}

\* Only http.ErrAbortHandler is handed on.
RepanicsOnlyAbort(f) == f = ErrAbortHandler

\* Only an *ierrors.Error is rendered; any other value is handed on.
RepanicsUnlessIerror(f) == f = ErrAbortHandler \/ f.kind # "ierror"

Repanics(f) == f = ErrAbortHandler \/ ~IsError(f)

\* withPanicHandler, deferred function.
PanicHandlerRecover ==
    /\ mode \in {"return", "panic"} /\ Cur = "withPanicHandler"
    /\ depth' = depth - 1
    /\ IF mode = "return"
       THEN UNCHANGED <<mode, fault, rw, trace>>
       ELSE IF Repanics(fault)
       THEN UNCHANGED <<mode, fault, rw, trace>>
       ELSE LET ierr == Normalize(fault)
            IN  /\ trace' = trace \o RenderCalls(fault, ierr)
                /\ rw' = RenderedWriter(rw, ierr)
                /\ mode' = "return"
                /\ fault' = fault
    /\ UNCHANGED <<req, outcome>>
    /\ ReqFrame

\* withCORS
CORSEnter ==
    /\ mode = "call" /\ Cur = "withCORS"
    /\ rw' = IF Len(AllowOrigin) > 0
             THEN HeaderSet(HeaderSet(rw, "Access-Control-Allow-Origin", AllowOrigin),
                            "Access-Control-Allow-Methods", "GET, OPTIONS")
             ELSE rw
    /\ trace' = Append(trace, Call("withCORS", "enter"))
    /\ depth' = depth + 1
    /\ UNCHANGED <<req, mode, fault, outcome>>
    /\ ReqFrame

\* A comparison of the header's first len(authHeader) bytes only.
AdmitsPrefix(auth) ==
    /\ Len(auth) >= Len(authHeader)
    /\ ConstantTimeCompare(SubSeq(auth, 1, Len(authHeader)), authHeader) = 1

\* withSecret, the returned closure.
Admits(auth) == ConstantTimeCompare(auth, authHeader) = 1

SecretCheck ==
    /\ mode = "call" /\ Cur = "withSecret"
    /\ trace' = Append(trace, Call("withSecret", "enter"))
                \o IF Admits(req.Authorization)
                   THEN <<>>
                   ELSE <<Ev("withSecret", "panic", 0, newInvalidSecretError)>>
    /\ IF Admits(req.Authorization)
       THEN /\ depth' = depth + 1
            /\ UNCHANGED <<mode, fault>>
       ELSE /\ mode' = "panic"
            /\ fault' = newInvalidSecretError
            /\ depth' = depth - 1
    /\ UNCHANGED <<req, rw, outcome>>
    /\ ReqFrame

\* withCORS and withSecret defer nothing: a return or a panic passes through.
Unwind ==
    /\ mode \in {"return", "panic"} /\ Cur \in {"withCORS", "withSecret"}
    /\ depth' = depth - 1
    /\ UNCHANGED <<req, mode, fault, rw, trace, outcome>>
    /\ ReqFrame

\* handleProcessing, the business handler: it may write a status line, may
\* write body bytes, and then returns or panics with a fault.
HandlerEnter ==
    /\ mode = "call" /\ Cur = "handleProcessing"
    /\ trace' = Append(trace, Call("handleProcessing", "enter"))
    /\ mode' = "run"
    /\ UNCHANGED <<req, depth, fault, rw, outcome>>
    /\ ReqFrame

HandlerWriteHeader ==
    /\ mode = "run" /\ ~rw.wroteHeader
    /\ rw' = WriteHeader(rw, StatusOK)
    /\ trace' = Append(trace, Ev("handleProcessing", "WriteHeader", StatusOK, NoFault))
    /\ UNCHANGED <<req, depth, mode, fault, outcome>>
    /\ ReqFrame

HandlerWrite ==
    /\ mode = "run" /\ rw.body = <<>>
    /\ rw' = Write(rw, "image")
    /\ trace' = Append(trace, Call("handleProcessing", "Write"))
    /\ UNCHANGED <<req, depth, mode, fault, outcome>>
    /\ ReqFrame

HandlerReturn ==
    /\ mode = "run"
    /\ mode' = "return"
    /\ depth' = depth - 1
    /\ UNCHANGED <<req, fault, rw, trace, outcome>>
    /\ ReqFrame

HandlerPanic(f) ==
    /\ mode = "run"
    /\ mode' = "panic"
    /\ fault' = f
    /\ trace' = Append(trace, Ev("handleProcessing", "panic", 0, f))
    /\ depth' = depth - 1
    /\ UNCHANGED <<req, rw, outcome>>
    /\ ReqFrame

\* handleHead
handleHead ==
    /\ mode = "call" /\ Cur = "handleHead"
    /\ trace' = trace \o <<Call("handleHead", "enter"),
                           Ev("handleHead", "router.LogResponse", 200, NoFault),
                           Ev("handleHead", "WriteHeader", 200, NoFault)>>
    /\ rw' = WriteHeader(rw, 200)
    /\ mode' = "return"
    /\ depth' = depth - 1
    /\ UNCHANGED <<req, fault, outcome>>
    /\ ReqFrame

\* handleHealth; healthy is the answer of vips.Health().
VipsError == PlainError("vips is unhealthy")

HealthErr(healthy) == IF healthy THEN NoFault ELSE VipsError

HealthStatus(healthy) == IF healthy THEN StatusOK ELSE StatusInternalServerError

HealthMsg(healthy) ==
    LET msg == IF healthy THEN imgproxyIsRunningMsg ELSE "Error"
    IN  IF Len(msg) = 0 THEN " " ELSE msg

\* A response-log line on every health request.
HealthLogAlways(healthy) ==
    <<Ev("handleHealth", "router.LogResponse", HealthStatus(healthy),
         Wrap(HealthErr(healthy), <<>>))>>

HealthLog(healthy) ==
    IF healthy
    THEN <<>>
    ELSE <<Ev("handleHealth", "router.LogResponse", HealthStatus(healthy),
              Wrap(HealthErr(healthy), <<>>))>>

handleHealth(healthy) ==
    /\ mode = "call" /\ Cur = "handleHealth"
    /\ trace' = trace
                \o <<Call("handleHealth", "enter"),
                     Ev("handleHealth", "vips.Health", 0, HealthErr(healthy))>>
                \o HealthLog(healthy)
                \o <<Ev("handleHealth", "WriteHeader", HealthStatus(healthy), NoFault),
                     Call("handleHealth", "Write")>>
    /\ rw' = Write(WriteHeader(HeaderSet(HeaderSet(rw, "Content-Type", "text/plain"),
                                         "Cache-Control", "no-cache"),
                               HealthStatus(healthy)),
                   HealthMsg(healthy))
    /\ mode' = "return"
    /\ depth' = depth - 1
    /\ UNCHANGED <<req, fault, outcome>>
    /\ ReqFrame

\* net/http, after the route's handler: a normal return ends the response
\* (status 200 if the handler wrote none); a panic that escaped aborts the
\* connection.
Finish ==
    /\ depth = 0 /\ mode \in {"return", "panic"}
    /\ mode' = "done"
    /\ IF mode = "return"
       THEN /\ rw' = WriteHeader(rw, StatusOK)
            /\ outcome' = "responded"
       ELSE /\ rw' = rw
            /\ outcome' = "aborted"
    /\ UNCHANGED <<req, depth, fault, trace>>
    /\ ReqFrame

RequestNext ==
    \/ \E route \in Routes, auth \in AuthHeaders : ServeHTTP(route, auth)
    \/ MetricsEnter
    \/ MetricsCancel
    \/ PanicHandlerEnter
    \/ PanicHandlerRecover
    \/ CORSEnter
    \/ SecretCheck
    \/ Unwind
    \/ HandlerEnter
    \/ HandlerWriteHeader
    \/ HandlerWrite
    \/ HandlerReturn
    \/ \E f \in HandlerFaults : HandlerPanic(f)
    \/ handleHead
    \/ \E healthy \in BOOLEAN : handleHealth(healthy)
    \/ Finish

-----------------------------------------------------------------------------
(* Listener and server lifecycle.                                           *)

\* Bounds of the model.
NConns == 3
MaxClientsBound == 2
MaxReuse == 1
MaxClock == 7

Conns == 1..NConns

\* shutdownServer: context.WithTimeout(context.Background(), 5*time.Second)
DrainTimeout == 5

\* A deadline one unit later.
ShutdownDeadlineLate == DrainTimeout + 1

ShutdownDeadline == DrainTimeout

\* startServer: the listener is wrapped by netutil.LimitListener(l,
\* config.MaxClients) when config.MaxClients > 0.
\* The limit applied only above one client.
LimitedAboveOne == MaxClients > 1

Limited == MaxClients > 0

\* One slot fewer than configured.
ListenerCapOffByOne == MaxClients - 1

ListenerCap == MaxClients

\* The LimitListener semaphore: acquire before Accept, release on Close.
CanAcquire == ~Limited \/ sem < ListenerCap

Acquire == IF Limited THEN sem + 1 ELSE sem

Release(n) == IF Limited THEN sem - n ELSE sem

\* keep-alives: enabled by startServer when config.KeepAliveTimeout > 0,
\* and off (http.Server.doKeepAlives) once Shutdown began.
KeepAlive == KeepAliveTimeout > 0 /\ shutdown = "no"

Open(c) == conn[c] \in {"active", "idle"}

OpenConns == { c \in Conns : Open(c) }

ActiveConns == { c \in Conns : conn[c] = "active" }

IdleConns == { c \in Conns : conn[c] = "idle" }

\* startServer(cancel); bound is whether reuseport.Listen succeeded.
\* The serve goroutine started before the error of Listen is looked at.
startServerServeFirst(bound) ==
    /\ startResult = "none"
    /\ serveLoop' = "running"
    /\ IF bound
       THEN /\ listener' = "open"
            /\ startResult' = "server"
       ELSE /\ startResult' = "error"
            /\ UNCHANGED listener
    /\ UNCHANGED <<sem, backlog, conn, resp, reused, waited, serveErr,
                   cancelCalls, errLog, shutdown, inflight, elapsed, returnedAt>>
    /\ SrvFrame

startServer(bound) ==
    /\ startResult = "none"
    /\ IF bound
       THEN /\ listener' = "open"
            /\ serveLoop' = "running"
            /\ startResult' = "server"
       ELSE /\ startResult' = "error"
            /\ UNCHANGED <<listener, serveLoop>>
    /\ UNCHANGED <<sem, backlog, conn, resp, reused, waited, serveErr,
                   cancelCalls, errLog, shutdown, inflight, elapsed, returnedAt>>
    /\ SrvFrame

\* A client connects: the connection waits in the accept queue.  Connections
\* are numbered in the order of their arrival.
Arrive(c) ==
    /\ conn[c] = "new" /\ listener = "open"
    /\ \A d \in Conns : d < c => conn[d] # "new"
    /\ conn' = [conn EXCEPT ![c] = "pending"]
    /\ backlog' = Append(backlog, c)
    /\ waited' = [waited EXCEPT ![c] = ~CanAcquire]
    /\ UNCHANGED <<listener, sem, resp, reused, serveLoop, serveErr, cancelCalls,
                   errLog, startResult, shutdown, inflight, elapsed, returnedAt>>
    /\ SrvFrame

\* s.Serve: Accept on the (limited) listener, then the request is served on
\* the connection's own goroutine.
Accept ==
    /\ serveLoop = "running" /\ listener = "open"
    /\ backlog # <<>>
    /\ CanAcquire
    /\ sem' = Acquire
    /\ conn' = [conn EXCEPT ![Head(backlog)] = "active"]
    /\ backlog' = Tail(backlog)
    /\ UNCHANGED <<listener, resp, reused, waited, serveLoop, serveErr,
                   cancelCalls, errLog, startResult, shutdown, inflight, elapsed,
                   returnedAt>>
    /\ SrvFrame

\* The handler of the request on c returns and the response is sent; the
\* connection is kept for the next request or closed.
FinishRequest(c) ==
    /\ conn[c] = "active"
    /\ resp' = [resp EXCEPT ![c] = "delivered"]
    /\ IF KeepAlive
       THEN /\ conn' = [conn EXCEPT ![c] = "idle"]
            /\ sem' = sem
       ELSE /\ conn' = [conn EXCEPT ![c] = "closed"]
            /\ sem' = Release(1)
    /\ waited' = [waited EXCEPT ![c] = @ /\ KeepAlive]
    /\ UNCHANGED <<listener, backlog, reused, serveLoop, serveErr,
                   cancelCalls, errLog, startResult, shutdown, inflight, elapsed,
                   returnedAt>>
    /\ SrvFrame

\* The next request arrives on a kept connection.
NextRequest(c) ==
    /\ conn[c] = "idle" /\ reused < MaxReuse
    /\ conn' = [conn EXCEPT ![c] = "active"]
    /\ resp' = [resp EXCEPT ![c] = "none"]
    /\ reused' = reused + 1
    /\ UNCHANGED <<listener, sem, backlog, waited, serveLoop, serveErr,
                   cancelCalls, errLog, startResult, shutdown, inflight, elapsed,
                   returnedAt>>
    /\ SrvFrame

\* A kept connection is closed: s.IdleTimeout passed, or the client left.
IdleClose(c) ==
    /\ conn[c] = "idle"
    /\ conn' = [conn EXCEPT ![c] = "closed"]
    /\ sem' = Release(1)
    /\ waited' = [waited EXCEPT ![c] = FALSE]
    /\ UNCHANGED <<listener, backlog, resp, reused, serveLoop, serveErr,
                   cancelCalls, errLog, startResult, shutdown, inflight, elapsed,
                   returnedAt>>
    /\ SrvFrame

\* The goroutine of startServer after s.Serve returned err: the error is
\* logged unless it is http.ErrServerClosed, then cancel() is called.
ServeErrors == IF shutdown = "no" THEN {"accept failed"} ELSE {"http.ErrServerClosed"}

\* cancel() called inside the error branch only.
ServeExitCancelOnError(err) ==
    /\ serveLoop = "running"
    /\ serveLoop' = "exited"
    /\ serveErr' = err
    /\ errLog' = IF err # "http.ErrServerClosed" THEN Append(errLog, err) ELSE errLog
    /\ cancelCalls' = IF err # "http.ErrServerClosed" THEN cancelCalls + 1
                      ELSE cancelCalls
    /\ listener' = "closed"
    /\ backlog' = <<>>
    /\ conn' = [c \in Conns |-> IF conn[c] = "pending" THEN "closed" ELSE conn[c]]
    /\ waited' = [c \in Conns |-> waited[c] /\ conn[c] # "pending"]
    /\ UNCHANGED <<sem, resp, reused, startResult, shutdown, inflight,
                   elapsed, returnedAt>>
    /\ SrvFrame

ServeExit(err) ==
    /\ serveLoop = "running"
    /\ serveLoop' = "exited"
    /\ serveErr' = err
    /\ errLog' = IF err # "http.ErrServerClosed" THEN Append(errLog, err) ELSE errLog
    /\ cancelCalls' = cancelCalls + 1
    /\ listener' = "closed"
    /\ backlog' = <<>>
    /\ conn' = [c \in Conns |-> IF conn[c] = "pending" THEN "closed" ELSE conn[c]]
    /\ waited' = [c \in Conns |-> waited[c] /\ conn[c] # "pending"]
    /\ UNCHANGED <<sem, resp, reused, startResult, shutdown, inflight,
                   elapsed, returnedAt>>
    /\ SrvFrame

\* s.Close() in place of s.Shutdown(ctx): every connection is closed at once.
ShutdownBeginClose ==
    /\ startResult = "server" /\ shutdown = "no"
    /\ shutdown' = "draining"
    /\ listener' = "closed"
    /\ backlog' = <<>>
    /\ conn' = [c \in Conns |-> IF conn[c] = "new" THEN "new" ELSE "closed"]
    /\ sem' = Release(Cardinality(OpenConns))
    /\ inflight' = ActiveConns
    /\ elapsed' = 0
    /\ waited' = [c \in Conns |-> waited[c] /\ conn'[c] = "active"]
    /\ UNCHANGED <<resp, reused, serveLoop, serveErr, cancelCalls, errLog,
                   startResult, returnedAt>>
    /\ SrvFrame

\* shutdownServer, up to the wait of s.Shutdown(ctx): the listener is closed
\* and so are the idle connections; active connections are left alone.
ShutdownBegin ==
    /\ startResult = "server" /\ shutdown = "no"
    /\ shutdown' = "draining"
    /\ listener' = "closed"
    /\ backlog' = <<>>
    /\ conn' = [c \in Conns |->
                  IF conn[c] \in {"pending", "idle"} THEN "closed" ELSE conn[c]]
    /\ sem' = Release(Cardinality(IdleConns))
    /\ inflight' = ActiveConns
    /\ elapsed' = 0
    /\ waited' = [c \in Conns |-> waited[c] /\ conn'[c] = "active"]
    /\ UNCHANGED <<resp, reused, serveLoop, serveErr, cancelCalls, errLog,
                   startResult, returnedAt>>
    /\ SrvFrame

\* Time passes while s.Shutdown waits; not beyond the deadline of ctx.
Tick ==
    /\ shutdown = "draining"
    /\ elapsed < ShutdownDeadline /\ elapsed < MaxClock
    /\ elapsed' = elapsed + 1
    /\ UNCHANGED <<listener, sem, backlog, conn, resp, reused, waited, serveLoop,
                   serveErr, cancelCalls, errLog, startResult, shutdown, inflight,
                   returnedAt>>
    /\ SrvFrame

\* s.Shutdown returns when no connection is active or when ctx is done;
\* shutdownServer then returns.  Nothing is done to the connections.
ShutdownReturn ==
    /\ shutdown = "draining"
    /\ ActiveConns = {} \/ elapsed >= ShutdownDeadline
    /\ shutdown' = "returned"
    /\ returnedAt' = elapsed
    /\ UNCHANGED <<listener, sem, backlog, conn, resp, reused, waited, serveLoop,
                   serveErr, cancelCalls, errLog, startResult, inflight, elapsed>>
    /\ SrvFrame

ServerNext ==
    \/ \E bound \in BOOLEAN : startServer(bound)
    \/ \E c \in Conns : Arrive(c)
    \/ Accept
    \/ \E c \in Conns : FinishRequest(c)
    \/ \E c \in Conns : NextRequest(c)
    \/ \E c \in Conns : IdleClose(c)
    \/ \E err \in ServeErrors : ServeExit(err)
    \/ ShutdownBegin
    \/ Tick
    \/ ShutdownReturn

-----------------------------------------------------------------------------
(* Specifications.                                                          *)

RequestIdle ==
    /\ req = [route |-> "processing", Authorization |-> <<>>]
    /\ depth = 0
    /\ mode = "idle"
    /\ fault = NoFault
    /\ rw = NewResponseWriter
    /\ trace = <<>>
    /\ outcome = "none"

ServerCreated ==
    /\ listener = "none"
    /\ sem = 0
    /\ backlog = <<>>
    /\ conn = [c \in Conns |-> "new"]
    /\ resp = [c \in Conns |-> "none"]
    /\ reused = 0
    /\ waited = [c \in Conns |-> FALSE]
    /\ serveLoop = "none"
    /\ serveErr = "none"
    /\ cancelCalls = 0
    /\ errLog = <<>>
    /\ startResult = "none"
    /\ shutdown = "no"
    /\ inflight = {}
    /\ elapsed = 0
    /\ returnedAt = 0

\* The request machine: every configuration the handlers read.
Init ==
    /\ Secret \in Secrets
    /\ AllowOrigin \in Origins
    /\ DevelopmentErrorsMode \in BOOLEAN
    /\ metricsEnabled \in BOOLEAN
    /\ MaxClients = 0
    /\ KeepAliveTimeout = 0
    /\ RequestIdle
    /\ ServerCreated

Next == RequestNext

Spec == Init /\ [][Next]_vars

\* The server machine: every configuration startServer reads.
ServerInit ==
    /\ Secret = <<>>
    /\ AllowOrigin = ""
    /\ DevelopmentErrorsMode = FALSE
    /\ metricsEnabled = FALSE
    /\ MaxClients \in 0..MaxClientsBound
    /\ KeepAliveTimeout \in 0..1
    /\ RequestIdle
    /\ ServerCreated

ServerSpec == ServerInit /\ [][ServerNext]_vars

\* The accept loop keeps running; while a request is running some request
\* ends, and while a connection is kept idle some idle connection is closed.
ServerFairness ==
    /\ WF_vars(Accept)
    /\ WF_vars(\E c \in Conns : FinishRequest(c))
    /\ WF_vars(\E c \in Conns : IdleClose(c))

FairServerSpec == ServerSpec /\ ServerFairness

-----------------------------------------------------------------------------
(* Properties of the request machine (Spec).                                *)

Done(route) == mode = "done" /\ req.route = route

Indices(by, ops) ==
    { i \in DOMAIN trace : trace[i].by = by /\ trace[i].op \in ops }

WriteOps == {"WriteHeader", "Write"}

Calls(op) == { i \in DOMAIN trace : trace[i].op = op }

Entered == Indices("handleProcessing", {"enter"}) # {}

\* The fault raised is an error other than the abort signal.
Intercepted == fault.kind \in {"error", "ierror"}

\* The fault raised is the abort signal or a value that is not an error.
Reraised == fault.kind \in {"abort", "value"}

\* C1 (as claimed): a request on the processing route whose chain raised an
\* error other than the abort signal ends with exactly one response written,
\* whose status is the error's status code and whose body is the full message
\* in development mode and the public message otherwise.
C1_OneResponsePerError ==
    (Done("processing") /\ fault.kind \in {"error", "ierror"}) =>
        LET ierr == Wrap(fault, <<>>)
        IN  /\ Cardinality(Calls("WriteHeader")) = 1
            /\ Cardinality(Calls("Write")) = 1
            /\ rw.status = ierr.statusCode
            /\ rw.body = << IF DevelopmentErrorsMode THEN ierr.msg
                            ELSE ierr.publicMessage >>

\* C2: with a secret S configured the business handler is entered exactly on
\* the header "Bearer S"; any other header ends in 403 with body "Forbidden"
\* (development mode off), the handler not entered and nothing reported; with
\* no secret every request enters the handler.
C2_SecretAdmission ==
    LET exact == req.Authorization = Bearer \o Secret
    IN  /\ (req.route = "processing" /\ Secret # <<>> /\ Entered) => exact
        /\ (Done("processing") /\ Secret # <<>> /\ exact) => Entered
        /\ (Done("processing") /\ Secret # <<>> /\ ~exact) =>
              /\ ~Entered
              /\ outcome = "responded"
              /\ rw.status = 403
              /\ ~DevelopmentErrorsMode => rw.body = <<"Forbidden">>
              /\ Calls("errorreport.Report") = {}
        /\ (Done("processing") /\ Secret = <<>>) => Entered

\* A wrong-case header is turned away with 403 "Forbidden".
C2_Witness ==
    /\ Done("processing")
    /\ Secret = <<"k", "1">>
    /\ req.Authorization = bearerLower \o <<"k", "1">>
    /\ ~DevelopmentErrorsMode
    /\ rw.status = 403 /\ rw.body = <<"Forbidden">>

\* C3 (as claimed): once the business handler has written a status line or
\* body bytes, withPanicHandler calls neither WriteHeader nor Write.
C3_NoWriteAfterResponse ==
    \A i \in Indices("handleProcessing", WriteOps) :
        \A j \in Indices("withPanicHandler", WriteOps) : j < i

\* C8: the health response is 200 "imgproxy is running" without a log line
\* when vips.Health succeeds, 500 "Error" with exactly one log line carrying
\* the wrapped failure when it fails; in both cases one response, with
\* Cache-Control: no-cache and a non-empty body, whatever the secret and the
\* Authorization header.
C8_Health ==
    Done("health") =>
        LET health == { trace[i].err : i \in Calls("vips.Health") }
            logs   == { trace[i] : i \in Calls("router.LogResponse") }
        IN  /\ outcome = "responded"
            /\ Cardinality(Calls("WriteHeader")) = 1
            /\ Cardinality(Calls("Write")) = 1
            /\ rw.sent["Cache-Control"] = "no-cache"
            /\ Len(rw.body) = 1 /\ rw.body[1] # ""
            /\ health = {NoFault} =>
                  /\ rw.status = 200
                  /\ rw.body = <<"imgproxy is running">>
                  /\ logs = {}
            /\ health # {NoFault} =>
                  /\ rw.status = 500
                  /\ rw.body = <<"Error">>
                  /\ Cardinality(Calls("router.LogResponse")) = 1
                  /\ \A l \in logs :
                        /\ l.status = 500
                        /\ l.err.kind = "ierror" /\ l.err.msg = VipsError.msg

\* A failed health check answered while a secret is set and no header sent.
C8_Witness ==
    /\ Done("health")
    /\ Secret # <<>> /\ req.Authorization = <<>>
    /\ rw.status = 500 /\ rw.body = <<"Error">>

\* C9: HEAD / and OPTIONS / end in status 200 with no body written, for
\* every secret and every Authorization header.
C9_HeadOptions ==
    (Done("head") \/ Done("options")) =>
        /\ outcome = "responded"
        /\ rw.status = 200
        /\ rw.body = <<>>
        /\ Calls("Write") = {}

\* HEAD answered 200 although a secret is set and the header is absent.
C9_Witness ==
    /\ Done("head")
    /\ Secret # <<>> /\ req.Authorization = <<>>
    /\ rw.status = 200 /\ rw.body = <<>>

\* C10 (as claimed): every request of the processing chain ends with a
\* response written, whatever fault the business handler raised.
C10_AlwaysResponse ==
    Done("processing") => (outcome = "responded" /\ rw.wroteHeader)

HandlerWroteFirst ==
    \E i \in Indices("handleProcessing", WriteOps) :
        \A j \in Indices("withPanicHandler", WriteOps) : i < j

\* C10 (amended): a processing request that returns normally or raises an
\* error other than http.ErrAbortHandler ends with a response written, whose
\* status is the handler's own when the handler wrote first and the error's
\* status code otherwise; http.ErrAbortHandler and a panic value that is not
\* an error are handed on, withPanicHandler writes nothing and the request
\* ends without a response unless the handler had written one itself.
C10_ResponseUnlessReraised ==
    Done("processing") =>
        /\ ~Reraised =>
              /\ outcome = "responded" /\ rw.wroteHeader
              /\ rw.status = IF HandlerWroteFirst \/ ~Intercepted THEN 200
                             ELSE Wrap(fault, <<>>).statusCode
        /\ Reraised =>
              /\ outcome = "aborted"
              /\ Indices("withPanicHandler", WriteOps) = {}
              /\ rw.wroteHeader <=> HandlerWroteFirst

\* The abort signal raised before anything was written: no response at all.
C10_Witness ==
    /\ Done("processing")
    /\ fault = ErrAbortHandler
    /\ outcome = "aborted" /\ ~rw.wroteHeader

\* The faults withPanicHandler renders.
RenderedFaults == { f \in HandlerFaults \cup {newInvalidSecretError} :
                      f.kind \in {"error", "ierror"} }

\* What the business handler had sent before the fault.
HandlerBody ==
    IF Indices("handleProcessing", {"Write"}) # {} THEN <<"image">> ELSE <<>>

\* C11: with development mode off, the response to an intercepted fault is
\* a function of the fault's status code and public message alone: its
\* status, Content-Type and body are fixed by these two (and by what the
\* handler had sent before), any two faults that agree on them are rendered
\* to the same response, and a full message that differs from the public
\* message is found in a body only with development mode on.
C11_Noninterference ==
    /\ ~DevelopmentErrorsMode =>
          \A f1, f2 \in RenderedFaults :
              LET e1 == Wrap(f1, <<>>)
                  e2 == Wrap(f2, <<>>)
              IN  (e1.statusCode = e2.statusCode
                      /\ e1.publicMessage = e2.publicMessage) =>
                  RenderedWriter(rw, e1) = RenderedWriter(rw, e2)
    /\ (Done("processing") /\ Intercepted) =>
          LET ierr == Wrap(fault, <<>>)
          IN  /\ ~DevelopmentErrorsMode =>
                    /\ rw.status = IF HandlerWroteFirst THEN 200
                                   ELSE ierr.statusCode
                    /\ rw.sent["Content-Type"] =
                          IF HandlerWroteFirst THEN "" ELSE "text/plain"
                    /\ rw.body = HandlerBody \o <<ierr.publicMessage>>
              /\ (ierr.msg # ierr.publicMessage
                      /\ \E i \in DOMAIN rw.body : rw.body[i] = ierr.msg) =>
                    DevelopmentErrorsMode

\* A response-write failure with its cause in the full message, rendered
\* with development mode off: the client reads the public message only.
C11_Witness ==
    /\ Done("processing") /\ ~DevelopmentErrorsMode
    /\ fault = newResponseWriteError(PlainError("connection reset by 10.0.0.7"))
    /\ rw.status = 500
    /\ rw.sent["Content-Type"] = "text/plain"
    /\ rw.body = <<"Failed to write response">>

\* Inputs of the error constructors.
URLStatuses == {400, 404, 422}

Messages == {"bad path", "signature mismatch"}

Causes == {PlainError("broken pipe"), PlainError("connection reset by 10.0.0.7")}

\* Every value the four constructors return on these inputs.
Constructed ==
    {newInvalidSecretError, newTooManyRequestsError}
        \cup {newInvalidURLErrorf(st, m) : st \in URLStatuses, m \in Messages}
        \cup {newResponseWriteError(c) : c \in Causes}

\* C12: wrapping a value of one of the constructors again, without options,
\* gives the same value, and wrapping any error twice gives what wrapping it
\* once gives; so what withPanicHandler logs, reports and renders for such a
\* fault carries the constructor's status code, public message and report
\* flag, not the defaults.
C12_WrapIdempotent ==
    /\ \A e \in Constructed : Wrap(e, <<>>) = e
    /\ \A f \in RenderedFaults : Wrap(Wrap(f, <<>>), <<>>) = Wrap(f, <<>>)
    /\ (Done("processing") /\ fault.kind = "ierror") =>
          /\ \A i \in Indices("withPanicHandler", {"router.LogResponse"}) :
                /\ trace[i].err = fault
                /\ trace[i].status = fault.statusCode
          /\ Cardinality(Indices("withPanicHandler", {"router.LogResponse"})) = 1
          /\ Indices("withPanicHandler", {"errorreport.Report"}) # {}
                <=> fault.shouldReport
          /\ ~HandlerWroteFirst => rw.status = fault.statusCode
          /\ ~DevelopmentErrorsMode =>
                rw.body = HandlerBody \o <<fault.publicMessage>>

\* The 403 of the secret check, wrapped a second time by withPanicHandler:
\* still 403 "Forbidden" and not reported.
C12_Witness ==
    /\ Done("processing") /\ ~DevelopmentErrorsMode
    /\ fault = newInvalidSecretError
    /\ rw.status = 403 /\ rw.body = <<"Forbidden">>
    /\ Calls("errorreport.Report") = {}
    /\ \E i \in Calls("router.LogResponse") : trace[i].status = 403

\* The policy of an error: status code, public message, report flag.
Policy(e) == <<e.statusCode, e.publicMessage, e.shouldReport>>

\* The policy the taxonomy table gives an error of this type.
TablePolicy(e) ==
    CASE e.type = "ResponseWriteError"   -> <<500, "Failed to write response", TRUE>>
      [] e.type = "InvalidURLError"      -> <<e.statusCode, "Invalid URL", FALSE>>
      [] e.type = "TooManyRequestsError" -> <<429, "Too many requests", FALSE>>
      [] e.type = "InvalidSecretError"   -> <<403, "Forbidden", FALSE>>
      [] OTHER                           -> <<500, "Internal Server Error", TRUE>>

\* C13: the constructors give the policies of the table: response-write
\* failure (500, "Failed to write response", reported), invalid URL (the
\* caller's status, "Invalid URL", not reported), too many requests (429,
\* "Too many requests", not reported), invalid secret (403, "Forbidden", not
\* reported); an error wrapped without options gets 500, "Internal Server
\* Error", reported.  The fault of a request carries the policy of its type.
C13_ConstructorPolicy ==
    /\ \A c \in Causes :
          /\ newResponseWriteError(c).kind = "ierror"
          /\ Policy(newResponseWriteError(c)) = <<500, "Failed to write response", TRUE>>
    /\ \A st \in URLStatuses, m \in Messages :
          /\ newInvalidURLErrorf(st, m).kind = "ierror"
          /\ Policy(newInvalidURLErrorf(st, m)) = <<st, "Invalid URL", FALSE>>
    /\ Policy(newTooManyRequestsError) = <<429, "Too many requests", FALSE>>
    /\ Policy(newInvalidSecretError) = <<403, "Forbidden", FALSE>>
    /\ \A c \in Causes :
          Policy(Wrap(c, <<>>)) = <<500, "Internal Server Error", TRUE>>
    /\ \A e \in Constructed : Policy(e) = TablePolicy(e)
    /\ fault.kind = "ierror" => Policy(fault) = TablePolicy(fault)
    /\ (Done("processing") /\ fault.kind = "ierror") =>
          \A i \in Indices("withPanicHandler", {"router.LogResponse"}) :
              Policy(trace[i].err) = TablePolicy(fault)

\* An invalid-URL fault with the caller's status 404 went through the
\* wrapper: answered 404 and logged, and not reported.
C13_Witness ==
    /\ Done("processing")
    /\ fault = newInvalidURLErrorf(404, "bad path")
    /\ rw.status = 404
    /\ Calls("errorreport.Report") = {}
    /\ \E i \in Calls("router.LogResponse") :
          Policy(trace[i].err) = <<404, "Invalid URL", FALSE>>

\* Every index of the first set lies before every index of the second.
Before(I, J) == \A i \in I, j \in J : i < j

\* C14: on the processing route the wrappers act once each and in the order
\* withMetrics (span opened, when metrics are enabled), withPanicHandler
\* (diagnostic context begun), withCORS (headers set, when an origin is
\* configured), withSecret (secret compared, when one is configured),
\* handleProcessing; the handler is entered only after every wrapper that is
\* in force has acted, and none acts after it was entered.
C14_WrapperOrder ==
    req.route = "processing" =>
        LET m == Indices("withMetrics", {"metrics.StartRequest"})
            p == Indices("withPanicHandler", {"errorreport.StartRequest"})
            c == Indices("withCORS", {"enter"})
            k == Indices("withSecret", {"enter"})
            h == Indices("handleProcessing", {"enter"})
        IN  /\ \A I \in {m, p, c, k, h} : Cardinality(I) <= 1
            /\ Before(m, p) /\ Before(p, c) /\ Before(c, k) /\ Before(k, h)
            /\ Before(m, c) /\ Before(m, k) /\ Before(m, h)
            /\ Before(p, k) /\ Before(p, h) /\ Before(c, h)
            /\ p # {} => (m # {} <=> metricsEnabled)
            /\ c # {} => p # {}
            /\ k # {} => (c # {} /\ Secret # <<>>)
            /\ h # {} =>
                  /\ p # {} /\ c # {}
                  /\ k # {} <=> Secret # <<>>
                  /\ rw.header["Access-Control-Allow-Origin"] = AllowOrigin

\* The handler is running with metrics, an origin and a secret configured:
\* the five steps are in the trace in this order.
C14_Witness ==
    /\ req.route = "processing" /\ mode = "run"
    /\ metricsEnabled /\ Secret # <<>> /\ AllowOrigin # ""
    /\ \E a, b, c, d, e \in DOMAIN trace :
          /\ a < b /\ b < c /\ c < d /\ d < e
          /\ trace[a].op = "metrics.StartRequest"
          /\ trace[b].op = "errorreport.StartRequest"
          /\ trace[c].by = "withCORS"
          /\ trace[d].by = "withSecret"
          /\ trace[e].by = "handleProcessing"

\* C15: with metrics enabled a processing request opens one span before
\* anything inside withMetrics runs and closes it once, after everything
\* inside has ended, on a normal return, on a rendered fault and on a fault
\* handed on; the span is never closed before it is opened nor twice.  With
\* metrics disabled withMetrics is not in the chain: no span is opened.
C15_MetricsSpan ==
    req.route = "processing" =>
        LET opened == Indices("withMetrics", {"metrics.StartRequest"})
            closed == Indices("withMetrics", {"metricsCancel"})
            inner  == { i \in DOMAIN trace : trace[i].by # "withMetrics" }
        IN  /\ Cardinality(opened) <= 1
            /\ Cardinality(closed) <= Cardinality(opened)
            /\ Before(opened, inner) /\ Before(inner, closed)
            /\ Before(opened, closed)
            /\ ~metricsEnabled =>
                  /\ Indices("withMetrics", {"enter"}) \cup opened \cup closed = {}
                  /\ buildRouter("processing")
                        = withPanicHandler(withCORS(withSecret(<<"handleProcessing">>)))
            /\ (metricsEnabled /\ inner # {}) => Cardinality(opened) = 1
            /\ (metricsEnabled /\ depth >= 1 /\ mode # "idle") => closed = {}
            /\ (metricsEnabled /\ mode = "done") =>
                  /\ Cardinality(opened) = 1
                  /\ closed = {Len(trace)}

\* A panic value that is not an error went out through withMetrics: the
\* request was aborted and the span was closed once.
C15_Witness ==
    /\ Done("processing") /\ metricsEnabled
    /\ fault = PanicValue /\ outcome = "aborted"
    /\ Cardinality(Calls("metrics.StartRequest")) = 1
    /\ Cardinality(Calls("metricsCancel")) = 1

\* What withPanicHandler does with a fault it renders.
RenderOps ==
    {"WriteHeader", "Write", "router.LogResponse", "errorreport.Report"}

\* The values raised inside the chain.
Raised == { trace[i].err : i \in Calls("panic") }

\* C16: withPanicHandler renders a fault exactly when its value is an error
\* other than http.ErrAbortHandler.  http.ErrAbortHandler and a value that
\* is not an error leave the wrapper as a panic with the value that was
\* raised, and the wrapper then writes no header and no body, logs no
\* response and reports nothing; no other fault leaves the wrapper.
C16_ReraiseUntouched ==
    req.route = "processing" =>
        LET rendered == Indices("withPanicHandler", RenderOps)
            outside  == Cur \in {"withMetrics", "transport"}
        IN  /\ (mode = "panic" /\ outside) =>
                  /\ fault.kind \in {"abort", "value"}
                  /\ Raised = {fault}
                  /\ rendered = {}
            /\ (mode = "return" /\ outside /\ Raised # {}) =>
                  /\ fault.kind \in {"error", "ierror"}
                  /\ Raised = {fault}
                  /\ Indices("withPanicHandler", {"WriteHeader"}) # {}
                  /\ Indices("withPanicHandler", {"Write"}) # {}
                  /\ Indices("withPanicHandler", {"router.LogResponse"}) # {}
            /\ rendered # {} =>
                  (Raised = {fault} /\ fault.kind \in {"error", "ierror"})
            /\ mode = "done" =>
                  /\ fault.kind \in {"abort", "value"} =>
                        (outcome = "aborted" /\ rendered = {})
                  /\ fault.kind \in {"error", "ierror"} =>
                        (outcome = "responded" /\ rendered # {})

\* A panic value that is not an error reached the transport as it was
\* raised, with nothing written, logged or reported on the way.
C16_Witness ==
    /\ Done("processing") /\ outcome = "aborted"
    /\ fault = PanicValue /\ Raised = {PanicValue}
    /\ Calls("errorreport.StartRequest") # {}
    /\ Indices("withPanicHandler", RenderOps) = {}
    /\ ~rw.wroteHeader

\* C17 (as claimed): for an intercepted fault the reporter is called once
\* if the wrapped error's report flag is set and not at all otherwise, one
\* response-log line is written, whose status is the status the client
\* receives, and the report and the log line come before anything of the
\* response is written.
C17_ReportLogThenResponse ==
    (Done("processing") /\ Intercepted) =>
        LET ierr   == Wrap(fault, <<>>)
            report == Indices("withPanicHandler", {"errorreport.Report"})
            log    == Indices("withPanicHandler", {"router.LogResponse"})
            writes == Calls("WriteHeader") \cup Calls("Write")
        IN  /\ Cardinality(report) = IF ierr.shouldReport THEN 1 ELSE 0
            /\ Cardinality(log) = 1
            /\ \A i \in log : trace[i].status = rw.status
            /\ Before(report \cup log, writes)

\* C17, the part that is the wrapper's own doing: the report is made once
\* exactly when the report flag is set, the one log line carries the status
\* the wrapper passes to WriteHeader, and both come before the wrapper's
\* writes; the status is the client's when the handler had written nothing.
C17_WrapperReportsAndLogs ==
    (Done("processing") /\ Intercepted) =>
        LET ierr   == Wrap(fault, <<>>)
            report == Indices("withPanicHandler", {"errorreport.Report"})
            log    == Indices("withPanicHandler", {"router.LogResponse"})
            header == Indices("withPanicHandler", {"WriteHeader"})
        IN  /\ Cardinality(report) = IF ierr.shouldReport THEN 1 ELSE 0
            /\ \A i \in report : trace[i].err = fault
            /\ Cardinality(log) = 1 /\ Cardinality(header) = 1
            /\ \A i \in log, j \in header : trace[i].status = trace[j].status
            /\ Before(report, log)
            /\ Before(log, Indices("withPanicHandler", WriteOps))
            /\ Indices("handleProcessing", WriteOps) = {} =>
                  \A i \in log : trace[i].status = rw.status

\* The handler had sent status 200 and then failed to write the body: the
\* failure is reported and logged with 500 after the client was sent 200.
C17_Witness ==
    /\ Done("processing")
    /\ fault = newResponseWriteError(PlainError("broken pipe"))
    /\ rw.status = 200
    /\ \E i \in Indices("handleProcessing", {"WriteHeader"}),
          j \in Indices("withPanicHandler", {"errorreport.Report"}),
          k \in Indices("withPanicHandler", {"router.LogResponse"}) :
          i < j /\ j < k /\ trace[k].status = 500

\* C19: on GET /, HEAD / and OPTIONS / every response whose header was
\* sent carries Access-Control-Allow-Origin with the configured origin and
\* Access-Control-Allow-Methods "GET, OPTIONS" when an origin is configured:
\* the handler's own response, the 200 of HEAD and OPTIONS, the rendered
\* error of a handler fault and the 403 of the secret check; with no origin
\* configured neither header is ever set.
C19_CORSHeaders ==
    /\ (req.route \in {"processing", "head", "options"} /\ rw.wroteHeader) =>
          /\ rw.sent["Access-Control-Allow-Origin"] = AllowOrigin
          /\ rw.sent["Access-Control-Allow-Methods"] =
                IF AllowOrigin # "" THEN "GET, OPTIONS" ELSE ""
    /\ (req.route \in {"processing", "head", "options"}
            /\ mode = "done" /\ outcome = "responded") => rw.wroteHeader
    /\ AllowOrigin = "" =>
          /\ rw.header["Access-Control-Allow-Origin"] = ""
          /\ rw.header["Access-Control-Allow-Methods"] = ""

\* The 403 of a failed secret check, sent with both headers.
C19_Witness ==
    /\ Done("processing") /\ AllowOrigin = "https://example.com"
    /\ fault = newInvalidSecretError /\ rw.status = 403
    /\ rw.sent["Access-Control-Allow-Origin"] = "https://example.com"
    /\ rw.sent["Access-Control-Allow-Methods"] = "GET, OPTIONS"

-----------------------------------------------------------------------------
(* Properties of the server machine (ServerSpec, FairServerSpec).           *)

\* C4: with a cap MaxClients > 0, at most MaxClients connections are
\* accepted and not yet closed.
C4_ConnectionCap ==
    MaxClients > 0 => Cardinality(OpenConns) <= MaxClients

\* The cap is reached and a connection is waiting.
C4_Witness ==
    /\ MaxClients > 0
    /\ Cardinality(OpenConns) = MaxClients
    /\ backlog # <<>>

\* C5: with a cap configured, a waiting connection leaves the accept queue
\* only by being accepted (or with the listener closing), and while the
\* listener stays open it is accepted in the end.
C5_DelayedNotRejected ==
    /\ [][\A c \in Conns :
            (MaxClients > 0 /\ conn[c] = "pending") =>
                (conn'[c] \in {"pending", "active"} \/ listener' # "open")]_vars
    /\ \A c \in Conns :
            (MaxClients > 0 /\ conn[c] = "pending")
                ~> (conn[c] = "active" \/ listener # "open")

\* A connection that arrived with the cap reached has been accepted.
C5_Witness ==
    \E c \in Conns : MaxClients > 0 /\ waited[c] /\ conn[c] = "active"

\* C6: a request in flight when shutdownServer began keeps running until it
\* ends with its response delivered; shutdown aborts none of them.
C6_DrainCompletes ==
    shutdown # "no" =>
        \A c \in inflight :
            \/ conn[c] = "active" /\ resp[c] = "none"
            \/ conn[c] = "closed" /\ resp[c] = "delivered"

\* Two requests in flight at shutdown have both ended within the window.
C6_Witness ==
    /\ shutdown = "draining" /\ elapsed > 0 /\ elapsed < 5
    /\ Cardinality(inflight) >= 2
    /\ \A c \in inflight : resp[c] = "delivered"

\* C7 (as claimed): shutdownServer returns within the 5 units and no handler
\* is running on an open connection once it has returned.
C7_ReturnsAndTerminates ==
    shutdown = "returned" => (returnedAt <= 5 /\ ActiveConns = {})

\* C7 (amended): shutdownServer returns within the 5 units, before the
\* deadline only with no connection active; on return the listener is closed
\* and no idle or waiting connection is left, while the connections still
\* running a handler at the deadline are left running.
C7_ReturnsWithinDeadline ==
    shutdown = "returned" =>
        /\ returnedAt <= 5
        /\ listener = "closed" /\ backlog = <<>> /\ IdleConns = {}
        /\ ActiveConns # {} => (returnedAt = 5 /\ ActiveConns \subseteq inflight)

\* Returned at the deadline with a handler still running.
C7_Witness ==
    /\ shutdown = "returned" /\ returnedAt = 5
    /\ \E c \in inflight : conn[c] = "active"

\* C18: cancel() is called once, in the step in which the serve loop exits,
\* whether Serve ended with an error or with http.ErrServerClosed, and never
\* before or again; the error is logged exactly when it is not
\* http.ErrServerClosed.
C18_CancelOnServeExit ==
    /\ [](/\ cancelCalls = IF serveLoop = "exited" THEN 1 ELSE 0
          /\ serveLoop \in {"none", "running"} =>
                (serveErr = "none" /\ errLog = <<>>)
          /\ serveLoop = "exited" =>
                /\ serveErr \in {"accept failed", "http.ErrServerClosed"}
                /\ errLog = IF serveErr = "http.ErrServerClosed" THEN <<>>
                            ELSE <<serveErr>>
                /\ serveErr = "http.ErrServerClosed" => shutdown # "no"
                /\ listener = "closed")
    /\ [][/\ cancelCalls' # cancelCalls =>
                /\ serveLoop = "running" /\ serveLoop' = "exited"
                /\ cancelCalls' = cancelCalls + 1
          /\ (serveLoop = "running" /\ serveLoop' # "running") =>
                cancelCalls' = cancelCalls + 1]_vars

\* Serve ended because of shutdown: nothing logged, cancel() called once.
C18_Witness ==
    /\ serveLoop = "exited" /\ serveErr = "http.ErrServerClosed"
    /\ shutdown # "no"
    /\ cancelCalls = 1 /\ errLog = <<>>

\* C20: when reuseport.Listen fails, startServer returns an error and no
\* server, and everything stays as it was created, for good: no listener, no
\* serve loop, no connection accepted, cancel() not called, nothing logged;
\* a serve loop, an accepted connection or a call of cancel() is found only
\* after startServer returned a server.
C20_BindFailure ==
    /\ [](startResult = "error" =>
            /\ listener = "none" /\ serveLoop = "none" /\ serveErr = "none"
            /\ cancelCalls = 0 /\ errLog = <<>>
            /\ backlog = <<>> /\ sem = 0
            /\ \A c \in Conns : conn[c] = "new" /\ resp[c] = "none"
            /\ shutdown = "no")
    /\ []((serveLoop # "none" \/ cancelCalls > 0 \/ listener # "none"
              \/ \E c \in Conns : conn[c] # "new")
            => startResult = "server")
    /\ [][startResult = "error" => UNCHANGED srvVars]_vars

\* startServer has returned an error: nothing was started.
C20_Witness ==
    /\ startResult = "error"
    /\ listener = "none" /\ serveLoop = "none" /\ cancelCalls = 0

=============================================================================
